---- MODULE Spec2Model ----
(***************************************************************************)
(* A model of registry/registry.py: the Registry class, which maps string  *)
(* names to RegisteredFunction entries (callable, name, metadata).         *)
(*                                                                         *)
(* The registry's dict `functions` is modelled as an ordered dict (a       *)
(* sequence of key/item slots in insertion order, as CPython keeps it).    *)
(* Each public method is one action.  Every action records the call, the   *)
(* dict as it was before the call, and the call's outcome (the exception   *)
(* raised or the value returned), so that pre/post statements about one    *)
(* call are state predicates.  Assertions are enabled (CPython's default). *)
(* The two-phase form is used as a decorator: the registrar that __call__  *)
(* returns is applied to a class or function as the caller's next step.    *)
(*                                                                         *)
(* Three specifications share the methods:                                 *)
(*   Spec         one caller making any sequence of calls;                 *)
(*   ExampleSpec  the script example.py, statement by statement;           *)
(*   ThreadSpec   a registering thread and a reading thread, interleaved   *)
(*                at the steps at which CPython can switch threads.        *)
(***************************************************************************)
EXTENDS Integers, Sequences, FiniteSets, TLC

VARIABLES
    functions,      \* self.functions: ordered dict, <<[key, item], ...>>
    bind_metadata,  \* self.bind_metadata, fixed at construction
    pending,        \* the closure _register returned by __call__(fn=None), until applied
    call,           \* the last call made on the registry and its arguments
    pre,            \* self.functions as it was when the last call started
    outcome,        \* the last call's exception (or "none") and return value
    registered,     \* number of Register calls that returned normally
    replaced,       \* ... of which stored onto a name that was already present
    removed,        \* number of remove calls that returned normally
    script,         \* example.py: where the script is, and its variables
    threads         \* the two threads' positions and local variables

vars == <<functions, bind_metadata, pending, call, pre, outcome,
          registered, replaced, removed, script, threads>>

----------------------------------------------------------------------------
(* Bounds of the model.                                                    *)

MaxRegistrations == 3
MaxRemovals == 1
MaxPipeline == 3
MaxStores == 2

----------------------------------------------------------------------------
(* Python values.                                                          *)

EmptyDict == [k \in {} |-> 0]

\* {**a, **b}: b's value wins on every key both have.
DictMerge(a, b) ==
    [k \in (DOMAIN a) \cup (DOMAIN b) |-> IF k \in DOMAIN b THEN b[k] ELSE a[k]]

\* {k: v for k, v in d.items() if k in keep}
DictFilter(d, keep) == [k \in {x \in DOMAIN d : x \in keep} |-> d[k]]

\* The `name` argument: None, a str, or a value of another type.
None == [kind |-> "NoneType", s |-> ""]
Str(s) == [kind |-> "str", s |-> s]
NotAStr == [kind |-> "int", s |-> "42"]
IsInstanceStr(name) == name.kind = "str"

\* The code points of the strings used as keys (str comparison is by code point).
CodePoints(s) ==
    CASE s = "GetWord" -> <<71, 101, 116, 87, 111, 114, 100>>
      [] s = "func"    -> <<102, 117, 110, 99>>
      [] s = "strip"   -> <<115, 116, 114, 105, 112>>
      [] s = "getword-0" -> <<103, 101, 116, 119, 111, 114, 100, 45, 48>>
      [] s = "getword-1" -> <<103, 101, 116, 119, 111, 114, 100, 45, 49>>
      [] OTHER         -> <<>>

RECURSIVE SeqLess(_, _)
SeqLess(a, b) ==
    IF b = <<>> THEN FALSE
    ELSE IF a = <<>> THEN TRUE
    ELSE IF a[1] # b[1] THEN a[1] < b[1]
    ELSE SeqLess(Tail(a), Tail(b))

\* a < b on str
StrLess(a, b) == SeqLess(CodePoints(a), CodePoints(b))

\* list.insert at the place that keeps a sorted list sorted
RECURSIVE InsertSorted(_, _)
InsertSorted(x, s) ==
    IF s = <<>> THEN <<x>>
    ELSE IF StrLess(x, s[1]) THEN <<x>> \o s
    ELSE <<s[1]>> \o InsertSorted(x, Tail(s))

\* sorted(keys)
RECURSIVE Sorted(_)
Sorted(s) == IF s = <<>> THEN <<>> ELSE InsertSorted(s[1], Sorted(Tail(s)))

----------------------------------------------------------------------------
(* The objects handed to the registry.  Parameter kinds are inspect's.     *)

POK == "POSITIONAL_OR_KEYWORD"
KWONLY == "KEYWORD_ONLY"
VARKW == "VAR_KEYWORD"

Param(n, k) == [name |-> n, kind |-> k]

\*   def strip(x)                          (example.py)
\*   def func(index, **_kwargs)            (a function taking **kwargs)
\*   class GetWord: index: int = 0         (example.py, a dataclass)
\*   partial(strip, index=0) for a `def strip(x, index)`: has .func and no
\*       __name__; its signature is (x, *, index=0)
\*   42                                    (not callable)
Objects == {"strip", "func", "GetWord", "partial_strip", "forty_two"}

\* callable(fn)
Callable(fn) == fn # "forty_two"

\* hasattr(fn, "func")
HasAttrFunc(fn) == fn = "partial_strip"

\* fn.func.__name__, of the one object that has .func
FuncName(fn) ==
    CASE fn = "partial_strip" -> "strip"

\* fn.__name__, of the callables that have one
DeclaredName(fn) ==
    CASE fn = "strip"         -> "strip"
      [] fn = "func"          -> "func"
      [] fn = "GetWord"       -> "GetWord"

\* inspect.signature(fn).parameters, in order
Signature(fn) ==
    CASE fn = "strip"         -> <<Param("x", POK)>>
      [] fn = "func"          -> <<Param("index", POK), Param("_kwargs", VARKW)>>
      [] fn = "GetWord"       -> <<Param("index", POK)>>
      [] fn = "partial_strip" -> <<Param("x", POK), Param("index", KWONLY)>>

\* The values a Python function call can hand back for a callable: the object
\* itself, or functools.partial(fn, **keywords).
Itself(fn) == [fn |-> fn, wrapped |-> FALSE, keywords |-> EmptyDict]
Partial(fn, kw) == [fn |-> fn, wrapped |-> TRUE, keywords |-> kw]

----------------------------------------------------------------------------
(* Inputs.                                                                 *)

Names == {Str("strip"), None, NotAStr}
Keys == {"strip", "func", "GetWord"}
Metadatas == {EmptyDict, ("index" :> 0) @@ ("z" :> 1)}
Kwargs == {EmptyDict, ("index" :> 5), ("z" :> 7)}

----------------------------------------------------------------------------
(* dict, with CPython's insertion order: a sequence of slots [key, item].  *)

DictKeys(d) == [i \in 1..Len(d) |-> d[i].key]

HasKey(d, k) == \E i \in 1..Len(d) : d[i].key = k

\* d[k], for a key that is present
GetItem(d, k) == d[CHOOSE i \in 1..Len(d) : d[i].key = k].item

\* Mutant of SetItem: d.setdefault(k, item), a present key keeps its item
SetItemKeepFirst(d, k, item) ==
    IF HasKey(d, k) THEN d ELSE Append(d, [key |-> k, item |-> item])

\* Mutant of SetItem: a list of entries, every store appends a slot
SetItemAppend(d, k, item) == Append(d, [key |-> k, item |-> item])

\* d[k] = item: a present key keeps its slot, a new key is appended
SetItem(d, k, item) ==
    IF HasKey(d, k)
    THEN [i \in 1..Len(d) |-> IF d[i].key = k THEN [key |-> k, item |-> item] ELSE d[i]]
    ELSE Append(d, [key |-> k, item |-> item])

\* d.pop(k), for a key that is present
PopItem(d, k) == SelectSeq(d, LAMBDA slot : slot.key # k)

----------------------------------------------------------------------------
(* Exceptions and results.                                                 *)

NoExc == [type |-> "none", key |-> "", listed |-> FALSE, keys |-> <<>>]
TypeError == [type |-> "TypeError", key |-> "", listed |-> FALSE, keys |-> <<>>]
AssertionError == [type |-> "AssertionError", key |-> "", listed |-> FALSE, keys |-> <<>>]
RuntimeError(name) == [type |-> "RuntimeError", key |-> name, listed |-> FALSE, keys |-> <<>>]
\* KeyError raised by get_with_metadata: the message holds the key and the key list
KeyErrorListed(key, keys) == [type |-> "KeyError", key |-> key, listed |-> TRUE, keys |-> keys]
\* RuntimeError raised by a dict iterator whose dict gained or lost a key
DictChangedSize == [type |-> "RuntimeError", key |-> "dictionary changed size during iteration",
                    listed |-> FALSE, keys |-> <<>>]
AttributeError(name) == [type |-> "AttributeError", key |-> name, listed |-> FALSE, keys |-> <<>>]
\* KeyError raised by dict.pop: the key alone
KeyErrorRaw(key) == [type |-> "KeyError", key |-> key, listed |-> FALSE, keys |-> <<>>]

Raise(e, d) == [exc |-> e, ret |-> "-", functions |-> d]
Return(v, d) == [exc |-> NoExc, ret |-> v, functions |-> d]

\* What the caller sees of a result: the exception or the value returned
Outcome(r) == [exc |-> r.exc, ret |-> r.ret]

----------------------------------------------------------------------------
(* The methods of Registry, as functions of the dict and the arguments.    *)

\* Mutant of RegisteredFunction: the entry's name is the callable's own name
RegisteredFunctionOwnName(fn, name, metadata) ==
    [fn |-> fn,
     name |-> IF HasAttrFunc(fn) THEN FuncName(fn) ELSE DeclaredName(fn),
     metadata |-> metadata]

RegisteredFunction(fn, name, metadata) ==
    [fn |-> fn, name |-> name, metadata |-> metadata]

\* __len__
len(d) == Len(d)

\* Mutant of __contains__: key == e.fn.__name__ (e.fn.func.__name__ for a partial)
contains_by_own_name(d, key) ==
    \E i \in 1..Len(d) :
        key = (IF HasAttrFunc(d[i].item.fn) THEN FuncName(d[i].item.fn)
               ELSE DeclaredName(d[i].item.fn))

\* __contains__
contains(d, key) == \E i \in 1..Len(d) : key = d[i].item.name

\* Mutant of available_keys: list(self.functions.keys()), without sorted()
available_keys_unsorted(d) == DictKeys(d)

available_keys(d) == Sorted(DictKeys(d))

\* Mutant of _iterate_arg_names: every parameter name, whatever its kind
iterate_all_arg_names(func) ==
    LET sig == Signature(func)
    IN {sig[i].name : i \in 1..Len(sig)}

iterate_arg_names(func) ==
    LET sig == Signature(func)
    IN {sig[i].name : i \in {j \in 1..Len(sig) : sig[j].kind = POK}}

has_var_kwargs(func) ==
    LET sig == Signature(func)
    IN \E i \in 1..Len(sig) : sig[i].kind = VARKW

\* Mutant of get_with_metadata: self.functions[key] without the membership check
get_with_metadata_unchecked(d, key) ==
    IF ~HasKey(d, key) THEN Raise(KeyErrorRaw(key), d) ELSE Return(GetItem(d, key), d)

get_with_metadata(d, key) ==
    IF ~contains(d, key)
    THEN Raise(KeyErrorListed(key, available_keys(d)), d)
    ELSE IF ~HasKey(d, key)
    THEN Raise(KeyErrorRaw(key), d)
    ELSE Return(GetItem(d, key), d)

\* Mutant of merge_kwargs: {**kwargs, **metadata}, the metadata wins
merge_kwargs_metadata_wins(bind, metadata, kwargs) ==
    IF bind THEN DictMerge(kwargs, metadata) ELSE kwargs

\* get, lines 66-67: the keywords before the signature filter
merge_kwargs(bind, metadata, kwargs) ==
    IF bind THEN DictMerge(metadata, kwargs) ELSE kwargs

\* get, lines 69-70
filter_kwargs(fn, kwargs) ==
    IF ~has_var_kwargs(fn)
    THEN DictFilter(kwargs, iterate_arg_names(fn))
    ELSE kwargs

\* Mutant of bind_kwargs: partial(fn, **kwargs) also when kwargs is empty
bind_kwargs_always(fn, kwargs) == Partial(fn, kwargs)

\* get, line 71
bind_kwargs(fn, kwargs) ==
    IF kwargs # EmptyDict THEN Partial(fn, kwargs) ELSE Itself(fn)

\* Mutant of get: metadata.update(kwargs), the merge is written into the entry
get_updates_metadata(d, bind, key, kwargs) ==
    LET r == get_with_metadata(d, key)
    IN IF r.exc # NoExc THEN r
       ELSE LET fn == r.ret.fn
                merged == merge_kwargs(bind, r.ret.metadata, kwargs)
            IN Return(bind_kwargs(fn, filter_kwargs(fn, merged)),
                      SetItem(d, key, RegisteredFunction(fn, r.ret.name, merged)))

get(d, bind, key, kwargs) ==
    LET r == get_with_metadata(d, key)
    IN IF r.exc # NoExc THEN r
       ELSE LET fn == r.ret.fn
                metadata == r.ret.metadata
            IN Return(bind_kwargs(fn, filter_kwargs(fn, merge_kwargs(bind, metadata, kwargs))), d)

\* Mutant of remove: self.functions.pop(key, None), an absent key is ignored
remove_ignore_missing(d, key) == Return("None", PopItem(d, key))

remove(d, key) ==
    IF HasKey(d, key) THEN Return("None", PopItem(d, key)) ELSE Raise(KeyErrorRaw(key), d)

\* Mutant of derive_name: a partial is named after its type, not after .func
derive_name_of_type(fn, name) ==
    IF name = None
    THEN IF HasAttrFunc(fn) THEN Str("partial") ELSE Str(DeclaredName(fn))
    ELSE name

\* _register_function, lines 91-96: the name the entry is stored under
derive_name(fn, name) ==
    IF name = None
    THEN IF HasAttrFunc(fn) THEN Str(FuncName(fn)) ELSE Str(DeclaredName(fn))
    ELSE name

\* _register_function, line 100
conflict(d, name, override) == override /\ contains(d, name)

\* Mutant of _register_function: the entry is stored before the conflict check
register_function_store_first(d, fn, name, override, metadata) ==
    IF ~Callable(fn) THEN Raise(TypeError, d)
    ELSE LET nm == derive_name(fn, name)
         IN IF ~IsInstanceStr(nm) THEN Raise(AssertionError, d)
            ELSE LET item == RegisteredFunction(fn, nm.s, metadata)
                     stored == SetItem(d, nm.s, item)
                 IN IF conflict(d, nm.s, override)
                    THEN Raise(RuntimeError(nm.s), stored)
                    ELSE Return("None", stored)

register_function(d, fn, name, override, metadata) ==
    IF ~Callable(fn) THEN Raise(TypeError, d)
    ELSE LET nm == derive_name(fn, name)
         IN IF ~IsInstanceStr(nm) THEN Raise(AssertionError, d)
            ELSE LET item == RegisteredFunction(fn, nm.s, metadata)
                 IN IF conflict(d, nm.s, override)
                    THEN Raise(RuntimeError(nm.s), d)
                    ELSE Return("None", SetItem(d, nm.s, item))

\* Mutant of registered_return: the stored entry (a wrapper) is returned
registered_return_wrapper(r, fn) ==
    IF r.exc = NoExc THEN Return(Partial(fn, EmptyDict), r.functions) ELSE r

\* __call__, lines 119-120, and _register, lines 127-128: register, then return fn
registered_return(r, fn) ==
    IF r.exc = NoExc THEN Return(Itself(fn), r.functions) ELSE r

----------------------------------------------------------------------------
(* The state machine.                                                      *)

NoRegistrar == [made |-> FALSE, name |-> None, override |-> FALSE, metadata |-> EmptyDict]
Registrar(name, override, metadata) ==
    [made |-> TRUE, name |-> name, override |-> override, metadata |-> metadata]

Call(op, form, fn, name, override, metadata, key, kwargs) ==
    [op |-> op, form |-> form, fn |-> fn, name |-> name, override |-> override,
     metadata |-> metadata, key |-> key, kwargs |-> kwargs]

Query(op, key, kwargs) == Call(op, "-", "-", None, FALSE, EmptyDict, key, kwargs)

\* The script and the threads, when a specification does not run them
NoScript == [pc |-> 0, pipeline |-> <<>>, registrars |-> <<>>, step |-> 0,
             fn |-> Itself("-"), output_lines |-> <<>>, failed |-> FALSE]
NoThreads == [writer |-> [pc |-> "off"], reader |-> [pc |-> "off"]]

\* Registry.__init__
Init ==
    /\ functions = <<>>
    /\ bind_metadata \in BOOLEAN
    /\ pending = NoRegistrar
    /\ call = Query("init", "", EmptyDict)
    /\ pre = <<>>
    /\ outcome = Outcome(Return("None", <<>>))
    /\ registered = 0
    /\ replaced = 0
    /\ removed = 0
    /\ script = NoScript
    /\ threads = NoThreads

\* What every registration does with the result r of _register_function
Registered(r, fn, name) ==
    /\ functions' = r.functions
    /\ pre' = functions
    /\ outcome' = Outcome(registered_return(r, fn))
    /\ registered' = IF r.exc = NoExc THEN registered + 1 ELSE registered
    /\ replaced' = IF r.exc = NoExc /\ HasKey(functions, derive_name(fn, name).s)
                   THEN replaced + 1 ELSE replaced
    /\ UNCHANGED <<bind_metadata, removed>>

\* __call__ with a callable: registry(fn, name=..., override=..., **metadata)
RegisterDirect(fn, name, override, metadata) ==
    /\ ~pending.made
    /\ registered < MaxRegistrations
    /\ call' = Call("register", "direct", fn, name, override, metadata, "", EmptyDict)
    /\ Registered(register_function(functions, fn, name, override, metadata), fn, name)
    /\ UNCHANGED <<pending, script, threads>>

\* __call__ without a callable: registry(name=..., override=..., **metadata)
MakeRegistrar(name, override, metadata) ==
    /\ ~pending.made
    /\ registered < MaxRegistrations
    /\ call' = Call("make_registrar", "two_phase", "-", name, override, metadata, "", EmptyDict)
    /\ pre' = functions
    /\ IF ~(name = None \/ IsInstanceStr(name))
       THEN /\ outcome' = Outcome(Raise(TypeError, functions))
            /\ UNCHANGED pending
       ELSE /\ outcome' = Outcome(Return("_register", functions))
            /\ pending' = Registrar(name, override, metadata)
    /\ UNCHANGED <<functions, bind_metadata, registered, replaced, removed, script, threads>>

\* _register(cls), the closure returned by __call__
ApplyRegistrar(cls) ==
    /\ pending.made
    /\ registered < MaxRegistrations
    /\ call' = Call("register", "two_phase", cls, pending.name, pending.override,
                    pending.metadata, "", EmptyDict)
    /\ Registered(register_function(functions, cls, pending.name, pending.override,
                                    pending.metadata), cls, pending.name)
    /\ pending' = NoRegistrar
    /\ UNCHANGED <<script, threads>>

\* What every call that only reads the registry does with its result r
Answered(r) ==
    /\ ~pending.made
    /\ functions' = r.functions
    /\ pre' = functions
    /\ outcome' = Outcome(r)
    /\ UNCHANGED <<bind_metadata, pending, registered, replaced, removed>>

Get(key, kwargs) ==
    /\ call' = Query("get", key, kwargs)
    /\ Answered(get(functions, bind_metadata, key, kwargs))
    /\ UNCHANGED <<script, threads>>

GetWithMetadata(key) ==
    /\ call' = Query("get_with_metadata", key, EmptyDict)
    /\ Answered(get_with_metadata(functions, key))
    /\ UNCHANGED <<script, threads>>

Contains(key) ==
    /\ call' = Query("contains", key, EmptyDict)
    /\ Answered(Return(contains(functions, key), functions))
    /\ UNCHANGED <<script, threads>>

Size ==
    /\ call' = Query("len", "", EmptyDict)
    /\ Answered(Return(len(functions), functions))
    /\ UNCHANGED <<script, threads>>

AvailableKeys ==
    /\ call' = Query("available_keys", "", EmptyDict)
    /\ Answered(Return(available_keys(functions), functions))
    /\ UNCHANGED <<script, threads>>

Remove(key) ==
    /\ ~pending.made
    /\ removed < MaxRemovals
    /\ call' = Query("remove", key, EmptyDict)
    /\ LET r == remove(functions, key)
       IN /\ functions' = r.functions
          /\ pre' = functions
          /\ outcome' = Outcome(r)
          /\ removed' = IF r.exc = NoExc THEN removed + 1 ELSE removed
    /\ UNCHANGED <<bind_metadata, pending, registered, replaced, script, threads>>

Next ==
    \/ \E fn \in Objects, name \in Names, override \in BOOLEAN, metadata \in Metadatas :
          RegisterDirect(fn, name, override, metadata)
    \/ \E name \in Names, override \in BOOLEAN, metadata \in Metadatas :
          MakeRegistrar(name, override, metadata)
    \/ \E cls \in Objects : ApplyRegistrar(cls)
    \/ \E key \in Keys, kwargs \in Kwargs : Get(key, kwargs)
    \/ \E key \in Keys : GetWithMetadata(key)
    \/ \E key \in Keys : Contains(key)
    \/ Size
    \/ AvailableKeys
    \/ \E key \in Keys : Remove(key)

Spec == Init /\ [][Next]_vars

----------------------------------------------------------------------------
(* example.py.  The statements that touch the registry, in the order in    *)
(* which Python runs them: a decorator expression is evaluated where it    *)
(* stands, the registrars of stacked decorators are applied bottom-up once *)
(* the class exists.  The script is run for every pipeline of at most      *)
(* MaxPipeline steps drawn from the steps the example uses; the example's  *)
(* own pipeline is ExamplePipeline.                                        *)

Function(f) == [kind |-> "function", s |-> f]

\* lines 13-21
Program ==
    << [op |-> "make", name |-> Str("strip"), metadata |-> EmptyDict],         \* line 13
       [op |-> "apply", target |-> "strip"],                                   \* line 14
       [op |-> "make", name |-> Str("getword-0"), metadata |-> ("index" :> 0)],  \* line 18
       [op |-> "make", name |-> Str("getword-1"), metadata |-> ("index" :> 1)],  \* line 19
       [op |-> "apply", target |-> "GetWord"],                                 \* line 19
       [op |-> "apply", target |-> "GetWord"] >>                               \* line 18

\* line 38
ExamplePipeline == <<Str("strip"), Str("getword-1"), Function("to_upper")>>

PipelineSteps == {Str("strip"), Str("getword-0"), Str("getword-1"), Function("to_upper")}

Pipelines ==
    UNION {[1..n -> PipelineSteps] : n \in 1..MaxPipeline}

\* The key that get compares with the entries' names: the step, when it is a
\* str; a function equals no str, and is shown by its repr
StepKey(step) == IF step.kind = "str" THEN step.s ELSE "<function to_upper>"

\* line 10: Registry("string", bound=...), bind_metadata left False
ExampleInit ==
    /\ functions = <<>>
    /\ bind_metadata = FALSE
    /\ pending = NoRegistrar
    /\ call = Query("init", "", EmptyDict)
    /\ pre = <<>>
    /\ outcome = Outcome(Return("None", <<>>))
    /\ registered = 0
    /\ replaced = 0
    /\ removed = 0
    /\ \E p \in Pipelines :
          script = [pc |-> 1, pipeline |-> p, registrars |-> <<>>, step |-> 1,
                    fn |-> Itself("-"), output_lines |-> <<>>, failed |-> FALSE]
    /\ threads = NoThreads

\* A decorator expression: STRING_REGISTRY(name=..., **metadata)
ScriptMake ==
    /\ ~script.failed
    /\ script.pc <= Len(Program)
    /\ Program[script.pc].op = "make"
    /\ LET ins == Program[script.pc]
       IN /\ call' = Call("make_registrar", "two_phase", "-", ins.name, FALSE,
                          ins.metadata, "", EmptyDict)
          /\ pre' = functions
          /\ outcome' = Outcome(Return("_register", functions))
          /\ script' = [script EXCEPT
                          !.pc = @ + 1,
                          !.registrars = <<Registrar(ins.name, FALSE, ins.metadata)>> \o @]
    /\ UNCHANGED <<functions, bind_metadata, pending, registered, replaced, removed, threads>>

\* The innermost registrar not yet applied is applied to the function or class
ScriptApply ==
    /\ ~script.failed
    /\ script.pc <= Len(Program)
    /\ Program[script.pc].op = "apply"
    /\ LET cls == Program[script.pc].target
           reg == Head(script.registrars)
           r == register_function(functions, cls, reg.name, reg.override, reg.metadata)
       IN /\ call' = Call("register", "two_phase", cls, reg.name, reg.override,
                          reg.metadata, "", EmptyDict)
          /\ Registered(r, cls, reg.name)
          /\ script' = [script EXCEPT
                          !.pc = @ + 1,
                          !.registrars = Tail(@),
                          !.failed = r.exc # NoExc]
    /\ UNCHANGED <<pending, threads>>

\* line 44, first half: STRING_REGISTRY.get(step)
ScriptGet ==
    /\ ~script.failed
    /\ script.pc = Len(Program) + 1
    /\ script.step <= Len(script.pipeline)
    /\ LET key == StepKey(script.pipeline[script.step])
           r == get(functions, bind_metadata, key, EmptyDict)
       IN /\ call' = Query("get", key, EmptyDict)
          /\ functions' = r.functions
          /\ pre' = functions
          /\ outcome' = Outcome(r)
          /\ script' = [script EXCEPT
                          !.pc = @ + 1,
                          !.fn = IF r.exc = NoExc THEN r.ret ELSE @,
                          !.failed = r.exc # NoExc]
    /\ UNCHANGED <<bind_metadata, pending, registered, replaced, removed, threads>>

\* line 44, second half: .instantiate_with_metadata on what get returned, a
\* function, a class or a functools.partial: none has the attribute
ScriptInstantiate ==
    /\ ~script.failed
    /\ script.pc = Len(Program) + 2
    /\ call' = Call("getattr", "-", script.fn.fn, None, FALSE, EmptyDict,
                    "instantiate_with_metadata", EmptyDict)
    /\ pre' = functions
    /\ outcome' = Outcome(Raise(AttributeError("instantiate_with_metadata"), functions))
    /\ script' = [script EXCEPT !.failed = TRUE]
    /\ UNCHANGED <<functions, bind_metadata, pending, registered, replaced, removed, threads>>

ExampleNext == ScriptMake \/ ScriptApply \/ ScriptGet \/ ScriptInstantiate

ExampleSpec == ExampleInit /\ [][ExampleNext]_vars

----------------------------------------------------------------------------
(* Two threads on one registry, which holds no lock.  The writer runs      *)
(* registry(fn, name=..., override=..., **metadata); the reader runs       *)
(* `key in registry` or registry.get_with_metadata(key).  CPython switches *)
(* threads between bytecodes: a dict store and one step of a dict iterator *)
(* are each a single step, and the generator of __contains__ is resumed    *)
(* once per entry.  The writer's own scan at line 100 is one step here,    *)
(* for no other thread changes the dict while it runs.                     *)

NoItem == RegisteredFunction("-", "", EmptyDict)

WriterIdle(exc) == [pc |-> "idle", item |-> NoItem, override |-> FALSE, exc |-> exc]

ReaderIdle == [pc |-> "idle", op |-> "-", key |-> "", size |-> 0, pos |-> 0,
               before |-> <<>>, exc |-> NoExc, ret |-> "-"]

\* iter(self.functions.values()): the iterator notes the size of the dict
dict_iter(d) == [size |-> Len(d), pos |-> 0]

dict_iter_next_unchecked(d, it) ==
    IF it.pos >= Len(d) THEN [kind |-> "stop", item |-> NoItem]
    ELSE [kind |-> "yield", item |-> d[it.pos + 1].item]

\* next() on the iterator: the size is compared first, then the position
dict_iter_next(d, it) ==
    IF it.size # Len(d) THEN [kind |-> "raise", item |-> NoItem]
    ELSE IF it.pos >= Len(d) THEN [kind |-> "stop", item |-> NoItem]
    ELSE [kind |-> "yield", item |-> d[it.pos + 1].item]

ThreadInit ==
    /\ functions = <<>>
    /\ bind_metadata = FALSE
    /\ pending = NoRegistrar
    /\ call = Query("init", "", EmptyDict)
    /\ pre = <<>>
    /\ outcome = Outcome(Return("None", <<>>))
    /\ registered = 0
    /\ replaced = 0
    /\ removed = 0
    /\ script = NoScript
    /\ threads = [writer |-> WriterIdle(NoExc), reader |-> ReaderIdle]

\* _register_function, lines 88-98: the checks and the construction of the
\* entry, all on the writer's own variables
WriterBuild ==
    /\ threads.writer.pc = "idle"
    /\ registered < MaxStores
    /\ \E fn \in Objects, name \in Names, override \in BOOLEAN, metadata \in Metadatas :
          threads' = [threads EXCEPT !.writer =
              IF ~Callable(fn) THEN WriterIdle(TypeError)
              ELSE IF ~IsInstanceStr(derive_name(fn, name)) THEN WriterIdle(AssertionError)
              ELSE [pc |-> "check",
                    item |-> RegisteredFunction(fn, derive_name(fn, name).s, metadata),
                    override |-> override, exc |-> NoExc]]
    /\ UNCHANGED <<functions, bind_metadata, pending, call, pre, outcome,
                   registered, replaced, removed, script>>

\* lines 100-104
WriterCheck ==
    /\ threads.writer.pc = "check"
    /\ threads' = [threads EXCEPT !.writer =
          IF conflict(functions, @.item.name, @.override)
          THEN WriterIdle(RuntimeError(@.item.name))
          ELSE [@ EXCEPT !.pc = "store"]]
    /\ UNCHANGED <<functions, bind_metadata, pending, call, pre, outcome,
                   registered, replaced, removed, script>>

\* line 106: self.functions[name] = item
WriterStore ==
    /\ threads.writer.pc = "store"
    /\ functions' = SetItem(functions, threads.writer.item.name, threads.writer.item)
    /\ registered' = registered + 1
    /\ replaced' = IF HasKey(functions, threads.writer.item.name)
                   THEN replaced + 1 ELSE replaced
    /\ threads' = [threads EXCEPT !.writer = WriterIdle(NoExc)]
    /\ UNCHANGED <<bind_metadata, pending, call, pre, outcome, removed, script>>

\* line 52 (reached directly or from line 74): the generator expression is
\* created over iter(self.functions.values()).  before is the dict as it was
\* then, kept for the statement of properties only.
ReaderStart ==
    /\ threads.reader.pc \in {"idle", "done"}
    /\ \E op \in {"contains", "get_with_metadata"}, key \in Keys :
          threads' = [threads EXCEPT !.reader =
              [pc |-> "scan", op |-> op, key |-> key,
               size |-> dict_iter(functions).size, pos |-> dict_iter(functions).pos,
               before |-> functions, exc |-> NoExc, ret |-> "-"]]
    /\ UNCHANGED <<functions, bind_metadata, pending, call, pre, outcome,
                   registered, replaced, removed, script>>

\* line 52: any() takes the next entry from the generator and compares names;
\* when the scan ends without a match, get_with_metadata raises at line 75
ReaderNext ==
    /\ threads.reader.pc = "scan"
    /\ LET rd == threads.reader
           nx == dict_iter_next(functions, [size |-> rd.size, pos |-> rd.pos])
       IN threads' = [threads EXCEPT !.reader =
              IF nx.kind = "raise"
              THEN [rd EXCEPT !.pc = "done", !.exc = DictChangedSize]
              ELSE IF nx.kind = "stop"
              THEN IF rd.op = "contains"
                   THEN [rd EXCEPT !.pc = "done", !.ret = FALSE]
                   ELSE [rd EXCEPT !.pc = "done",
                                   !.exc = KeyErrorListed(rd.key, available_keys(functions))]
              ELSE IF rd.key = nx.item.name
              THEN IF rd.op = "contains"
                   THEN [rd EXCEPT !.pc = "done", !.ret = TRUE]
                   ELSE [rd EXCEPT !.pc = "found", !.pos = @ + 1]
              ELSE [rd EXCEPT !.pos = @ + 1]]
    /\ UNCHANGED <<functions, bind_metadata, pending, call, pre, outcome,
                   registered, replaced, removed, script>>

\* line 76: return self.functions[key]
ReaderSubscript ==
    /\ threads.reader.pc = "found"
    /\ LET rd == threads.reader
       IN threads' = [threads EXCEPT !.reader =
              IF HasKey(functions, rd.key)
              THEN [rd EXCEPT !.pc = "done", !.ret = GetItem(functions, rd.key)]
              ELSE [rd EXCEPT !.pc = "done", !.exc = KeyErrorRaw(rd.key)]]
    /\ UNCHANGED <<functions, bind_metadata, pending, call, pre, outcome,
                   registered, replaced, removed, script>>

ThreadNext ==
    \/ WriterBuild \/ WriterCheck \/ WriterStore
    \/ ReaderStart \/ ReaderNext \/ ReaderSubscript

ThreadSpec == ThreadInit /\ [][ThreadNext]_vars

----------------------------------------------------------------------------
(* Vocabulary of the properties below.                                     *)

\* The last call was a registration (either form) that reached _register_function
IsRegister == call.op = "register"

\* The last call was a registration with a callable and an explicit str name
IsNamedRegister == IsRegister /\ Callable(call.fn) /\ call.name.kind = "str"

IsGet == call.op = "get"

Succeeded == outcome.exc.type = "none"

KeySet(d) == {d[i].key : i \in 1..Len(d)}

\* ks lists exactly the keys of d, each once, in ascending str order
IsSortedListOf(ks, d) ==
    /\ {ks[i] : i \in 1..Len(ks)} = KeySet(d)
    /\ Len(ks) = Cardinality(KeySet(d))
    /\ \A i, j \in 1..Len(ks) : i < j => StrLess(ks[i], ks[j])

\* The names of the positional-or-keyword parameters of fn, and whether fn
\* has a **kwargs parameter, read off its signature
PositionalOrKeyword(fn) ==
    {n \in {"x", "index", "z", "_kwargs"} :
        \E i \in 1..Len(Signature(fn)) :
            Signature(fn)[i].name = n /\ Signature(fn)[i].kind = "POSITIONAL_OR_KEYWORD"}

TakesVarKeyword(fn) ==
    \E i \in 1..Len(Signature(fn)) : Signature(fn)[i].kind = "VAR_KEYWORD"

\* The entry a successful get resolved, and the keywords it bound
GotEntry == GetItem(pre, call.key)
Bound == outcome.ret.keywords

----------------------------------------------------------------------------
(* C1.  Registering a name that is already registered, with override=False, *)
(* fails with RuntimeError (the conflict error) and leaves the prior entry  *)
(* in place: same callable, same metadata.                                  *)
C1_ConflictFailsWithoutOverride ==
    (IsNamedRegister /\ HasKey(pre, call.name.s) /\ ~call.override)
        => /\ outcome.exc.type = "RuntimeError"
           /\ HasKey(functions, call.name.s)
           /\ GetItem(functions, call.name.s) = GetItem(pre, call.name.s)

(* C2.  Registering a name that is already registered, with override=True,  *)
(* succeeds and replaces the entry: lookup then gives the new callable and  *)
(* metadata, and the set of registered names is what it was.                *)
C2_OverrideReplaces ==
    (IsNamedRegister /\ HasKey(pre, call.name.s) /\ call.override)
        => /\ Succeeded
           /\ KeySet(functions) = KeySet(pre)
           /\ HasKey(functions, call.name.s)
           /\ GetItem(functions, call.name.s).fn = call.fn
           /\ GetItem(functions, call.name.s).metadata = call.metadata

(* C3.  Right after a registration that succeeded, the name is contained in *)
(* the registry and lookup of it returns the entry with the very callable   *)
(* registered, the name given (or derived, when none was given) and the     *)
(* metadata supplied.                                                       *)
C3_RegisteredIsRetrievable ==
    (IsRegister /\ Succeeded)
        => LET k == IF call.name.kind = "str" THEN call.name.s
                    ELSE derive_name(call.fn, call.name).s
               r == get_with_metadata(functions, k)
           IN /\ contains(functions, k)
              /\ r.exc.type = "none"
              /\ r.ret.fn = call.fn
              /\ r.ret.name = k
              /\ r.ret.metadata = call.metadata

\* C3's case: an explicit name, a callable and non-empty metadata were registered
C3_Witness ==
    /\ IsNamedRegister /\ Succeeded
    /\ call.metadata # EmptyDict
    /\ HasKey(pre, call.name.s)
    /\ GetItem(pre, call.name.s) # GetItem(functions, call.name.s)

(* C4.  A registration call that fails (target not callable, explicit name  *)
(* not a str, or name conflict), in either form, leaves the entries mapping *)
(* exactly as it was before the call.                                       *)
C4_FailedRegisterChangesNothing ==
    (call.op \in {"register", "make_registrar"} /\ ~Succeeded) => functions = pre

\* C4's case: a registration failed on a conflict, in a registry holding entries
C4_Witness ==
    /\ IsRegister
    /\ outcome.exc.type = "RuntimeError"
    /\ Len(pre) >= 1
    /\ functions = pre

(* C5.  get_with_metadata and get of a key that is not registered fail with *)
(* KeyError carrying the key asked for and the full sorted list of the keys *)
(* registered, and leave the registry unchanged.                            *)
C5_MissingKeyRaisesKeyError ==
    (call.op \in {"get", "get_with_metadata"} /\ ~HasKey(pre, call.key))
        => /\ outcome.exc.type = "KeyError"
           /\ outcome.exc.key = call.key
           /\ outcome.exc.listed
           /\ IsSortedListOf(outcome.exc.keys, pre)
           /\ functions = pre

\* C5's case: get missed a key in a registry whose two keys were inserted out of order
C5_Witness ==
    /\ IsGet
    /\ ~HasKey(pre, call.key)
    /\ Len(pre) = 2
    /\ StrLess(pre[2].key, pre[1].key)
    /\ outcome.exc.type = "KeyError"

(* C6.  The keywords get binds come from the metadata and the overrides by  *)
(* the registry's bind_metadata mode.  Mode true: every bound key has the   *)
(* override's value if the overrides have the key, else the metadata's, and *)
(* a callable taking **kwargs is bound with every key of either.  Mode      *)
(* false: every bound key and value is an override's, no metadata key is    *)
(* bound, and a callable taking **kwargs is bound with exactly the          *)
(* overrides.                                                               *)
C6_CandidateKeywords ==
    (IsGet /\ Succeeded)
        => IF bind_metadata
           THEN /\ \A k \in DOMAIN Bound :
                      Bound[k] = IF k \in DOMAIN call.kwargs THEN call.kwargs[k]
                                 ELSE GotEntry.metadata[k]
                /\ TakesVarKeyword(GotEntry.fn)
                      => DOMAIN Bound = (DOMAIN GotEntry.metadata) \cup (DOMAIN call.kwargs)
           ELSE /\ \A k \in DOMAIN Bound : k \in DOMAIN call.kwargs /\ Bound[k] = call.kwargs[k]
                /\ TakesVarKeyword(GotEntry.fn) => Bound = call.kwargs

\* C6's case: in mode true an override collided with a metadata key and won,
\* beside a metadata key that was bound as stored
C6_Witness ==
    /\ IsGet /\ Succeeded /\ bind_metadata
    /\ "index" \in DOMAIN GotEntry.metadata
    /\ "index" \in DOMAIN call.kwargs
    /\ GotEntry.metadata["index"] # call.kwargs["index"]
    /\ DOMAIN Bound = {"index", "z"}
    /\ Bound["index"] = call.kwargs["index"]
    /\ Bound["z"] = GotEntry.metadata["z"]

(* C7.  get binds the whole candidate keyword set when the callable has a   *)
(* **kwargs parameter; otherwise it binds exactly the candidate keys that   *)
(* name a positional-or-keyword parameter of the callable, and drops every  *)
(* other key without an error.                                              *)
C7_SignatureFilter ==
    (IsGet /\ HasKey(pre, call.key))
        => LET cand == merge_kwargs(bind_metadata, GotEntry.metadata, call.kwargs)
           IN /\ Succeeded
              /\ IF TakesVarKeyword(GotEntry.fn)
                 THEN Bound = cand
                 ELSE /\ DOMAIN Bound = (DOMAIN cand) \cap PositionalOrKeyword(GotEntry.fn)
                      /\ \A k \in DOMAIN Bound : Bound[k] = cand[k]

\* C7's case: a callable without **kwargs had candidates index and z; index
\* names a keyword-only parameter, z names none; both were dropped without an error
C7_Witness ==
    /\ IsGet /\ Succeeded
    /\ HasKey(pre, call.key)
    /\ GotEntry.fn = "partial_strip"
    /\ DOMAIN merge_kwargs(bind_metadata, GotEntry.metadata, call.kwargs) = {"index", "z"}
    /\ Bound = EmptyDict

(* C8.  When the final keyword set of get is empty, get returns the         *)
(* registered callable itself, not a wrapper; when it is not empty, get     *)
(* returns the callable with exactly that keyword set pre-bound.            *)
C8_EmptyBindingReturnsCallable ==
    (IsGet /\ Succeeded)
        => LET final == filter_kwargs(GotEntry.fn,
                            merge_kwargs(bind_metadata, GotEntry.metadata, call.kwargs))
           IN /\ outcome.ret.fn = GotEntry.fn
              /\ outcome.ret.keywords = final
              /\ outcome.ret.wrapped <=> (DOMAIN final # {})

\* C8's case: overrides were given, the signature filter dropped them all, and
\* the callable came back unwrapped
C8_Witness ==
    /\ IsGet /\ Succeeded
    /\ call.kwargs # EmptyDict
    /\ ~outcome.ret.wrapped
    /\ outcome.ret.fn = GotEntry.fn

(* C9, as stated.  The size of the registry is the number of successful     *)
(* registrations minus the number of removals.                              *)
C9_SizeIsRegistrationsMinusRemovals ==
    len(functions) = registered - removed

(* C9, amended.  The size of the registry is the number of successful       *)
(* registrations of a name that was not registered at the time of the call, *)
(* minus the number of successful removals.                                 *)
C9_SizeIsNewNamesMinusRemovals ==
    len(functions) = (registered - replaced) - removed

\* C9's case: names were added, one was registered again, one was removed
C9_Witness ==
    /\ replaced >= 1
    /\ removed >= 1
    /\ len(functions) >= 1
    /\ call.op = "len"
    /\ outcome.ret = len(functions)

(* C10.  In every reachable state available_keys returns exactly the        *)
(* registered names, each once, in ascending lexicographic order, whatever  *)
(* the order in which they were registered; and that is what a call of it   *)
(* returned.                                                                *)
C10_AvailableKeysSorted ==
    /\ IsSortedListOf(available_keys(functions), functions)
    /\ (call.op = "available_keys") => IsSortedListOf(outcome.ret, pre)

\* C10's case: available_keys was called on three names registered in descending order
C10_Witness ==
    /\ call.op = "available_keys"
    /\ Len(functions) = 3
    /\ StrLess(functions[3].key, functions[2].key)
    /\ StrLess(functions[2].key, functions[1].key)
    /\ outcome.ret = <<functions[3].key, functions[2].key, functions[1].key>>

(* C11, as stated.  remove of a key that is not registered fails with a     *)
(* KeyError that carries the key and the current sorted key list, and       *)
(* leaves the registry unchanged.                                           *)
C11_RemoveMissingListsKeys ==
    (call.op = "remove" /\ ~HasKey(pre, call.key))
        => /\ outcome.exc.type = "KeyError"
           /\ outcome.exc.key = call.key
           /\ outcome.exc.listed
           /\ IsSortedListOf(outcome.exc.keys, pre)
           /\ functions = pre

(* C11, amended.  remove of a registered key deletes exactly that entry:    *)
(* afterwards the key is not contained, lookup of it fails with KeyError,   *)
(* and every other entry is as it was.  remove of a key that is not         *)
(* registered fails with a KeyError that carries the key alone, without the *)
(* key list, and leaves the registry unchanged.                             *)
C11_RemoveDeletesOrRaisesKeyError ==
    (call.op = "remove")
        => IF HasKey(pre, call.key)
           THEN /\ Succeeded
                /\ ~contains(functions, call.key)
                /\ get_with_metadata(functions, call.key).exc.type = "KeyError"
                /\ KeySet(functions) = KeySet(pre) \ {call.key}
                /\ \A k \in KeySet(functions) : GetItem(functions, k) = GetItem(pre, k)
           ELSE /\ outcome.exc.type = "KeyError"
                /\ outcome.exc.key = call.key
                /\ ~outcome.exc.listed
                /\ functions = pre

\* C11's case: remove missed a key in a registry that holds other keys
C11_Witness ==
    /\ call.op = "remove"
    /\ ~HasKey(pre, call.key)
    /\ Len(pre) >= 2
    /\ outcome.exc.type = "KeyError"

(* C12.  A registration whose target is not callable, or whose explicit     *)
(* name is not a str, fails with TypeError, in the direct form and in the   *)
(* two-phase form, whatever override is and whether or not the name         *)
(* conflicts.                                                               *)
C12_BadArgumentsRaiseTypeError ==
    (/\ call.op \in {"register", "make_registrar"}
     /\ \/ call.op = "register" /\ ~Callable(call.fn)
        \/ call.name.kind \notin {"NoneType", "str"})
        => outcome.exc.type = "TypeError"

(* C13.  The two-phase form gives the outcome and the registry the direct   *)
(* form gives with the same arguments on the same registry: the registrar   *)
(* applied to a callable does what the direct call does, and when no        *)
(* registrar is returned the direct call fails with the same error for      *)
(* every target.                                                            *)
C13_TwoPhaseEqualsDirect ==
    /\ (IsRegister /\ call.form = "two_phase")
          => LET r == registered_return(
                          register_function(pre, call.fn, call.name, call.override,
                                            call.metadata), call.fn)
             IN outcome = Outcome(r) /\ functions = r.functions
    /\ (call.op = "make_registrar" /\ ~Succeeded)
          => \A fn \in Objects :
                LET r == registered_return(
                             register_function(pre, fn, call.name, call.override,
                                               call.metadata), fn)
                IN outcome.exc.type = r.exc.type /\ functions = r.functions

(* C14.  A registration that succeeds, in either form, returns the very     *)
(* callable passed in, not a wrapper and not the stored entry; the entry    *)
(* stored holds that callable, also when it is already registered under     *)
(* another name.                                                            *)
C14_RegisterReturnsCallable ==
    (IsRegister /\ Succeeded)
        => /\ outcome.ret.fn = call.fn
           /\ ~outcome.ret.wrapped
           /\ outcome.ret.keywords = EmptyDict
           /\ \E i \in 1..Len(functions) : functions[i].item.fn = call.fn

\* C14's case: a registrar was applied to a callable that an earlier
\* registration returned and that is registered under another name
C14_Witness ==
    /\ IsRegister /\ Succeeded
    /\ call.form = "two_phase"
    /\ \E i \in 1..Len(pre) : pre[i].item.fn = call.fn
    /\ Cardinality({i \in 1..Len(functions) : functions[i].item.fn = call.fn}) = 2
    /\ outcome.ret.fn = call.fn

(* C15.  A registration without a name stores the entry under the name of   *)
(* the function the callable wraps, if it wraps one (fn.func), and under    *)
(* the callable's own declared name otherwise; it never fails on the name,  *)
(* and registering the same callable again derives the same key.            *)
C15_DerivedName ==
    (IsRegister /\ Callable(call.fn) /\ call.name.kind = "NoneType")
        => LET k == IF HasAttrFunc(call.fn) THEN FuncName(call.fn)
                    ELSE DeclaredName(call.fn)
           IN IF Succeeded
              THEN /\ KeySet(functions) = KeySet(pre) \cup {k}
                   /\ GetItem(functions, k).fn = call.fn
                   /\ GetItem(functions, k).name = k
              ELSE /\ outcome.exc.type = "RuntimeError"
                   /\ outcome.exc.key = k

\* C15's case: the partial was registered without a name a second time, onto
\* the key derived from the function it wraps
C15_Witness ==
    /\ IsRegister /\ Succeeded
    /\ call.name.kind = "NoneType"
    /\ call.fn = "partial_strip"
    /\ HasKey(pre, "strip")
    /\ GetItem(pre, "strip").fn = "partial_strip"
    /\ KeySet(functions) = KeySet(pre)
    /\ GetItem(functions, "strip").fn = "partial_strip"

(* C17.  In every reachable state, after any registrations (named or        *)
(* unnamed, with or without override) and removals, every stored entry's    *)
(* name is the key it is stored under.                                      *)
C17_EntryNameIsKey ==
    \A i \in 1..Len(functions) : functions[i].item.name = functions[i].key

\* C17's case: after a removal the registry holds a callable under a key that
\* is not the callable's own name
C17_Witness ==
    /\ removed >= 1
    /\ Len(functions) >= 2
    /\ \E i \in 1..Len(functions) :
          /\ functions[i].item.fn = "func"
          /\ functions[i].key = "strip"
          /\ functions[i].item.name = "strip"

(* C18.  The entries change only through registration and removal: a name   *)
(* appears only by a registration that succeeded and disappears only by a   *)
(* removal that succeeded, and get, get_with_metadata, the membership test, *)
(* len and available_keys leave the mapping as it was (names, callables and *)
(* stored metadata, also when get merges overrides over the metadata); get  *)
(* hands back the callable or a partial of it, not a result of calling it.  *)
C18_OnlyRegisterAndRemoveChangeEntries ==
    /\ (functions # pre) => (call.op \in {"register", "remove"} /\ Succeeded)
    /\ (KeySet(functions) \ KeySet(pre) # {}) => (IsRegister /\ Succeeded)
    /\ (KeySet(pre) \ KeySet(functions) # {}) => (call.op = "remove" /\ Succeeded)
    /\ (IsGet /\ Succeeded) => outcome.ret.fn = GotEntry.fn

\* C18's case: get merged an override over stored metadata and the entry kept
\* its metadata
C18_Witness ==
    /\ IsGet /\ Succeeded /\ bind_metadata
    /\ GotEntry.metadata # EmptyDict
    /\ call.kwargs # EmptyDict
    /\ Bound # EmptyDict
    /\ Bound # GotEntry.metadata
    /\ GetItem(functions, call.key).metadata = GotEntry.metadata

(* C19.  In every reachable state and for every key, the membership test,   *)
(* lookup and available_keys agree: the key is contained iff lookup of it   *)
(* succeeds iff it is in available_keys; and a lookup never fails with the  *)
(* dict's own KeyError after its membership test passed.                    *)
C19_MembershipLookupKeysAgree ==
    /\ \A key \in Keys :
          /\ contains(functions, key) <=> (get_with_metadata(functions, key).exc.type = "none")
          /\ contains(functions, key)
                <=> (\E i \in 1..Len(available_keys(functions)) :
                        available_keys(functions)[i] = key)
          /\ get_with_metadata(functions, key).exc.type = "KeyError"
                => get_with_metadata(functions, key).exc.listed
    /\ (call.op \in {"get", "get_with_metadata"} /\ ~Succeeded)
          => (outcome.exc.type = "KeyError" /\ outcome.exc.listed)

\* C19's case: the membership test found a key whose callable has another
\* name of its own, after a removal
C19_Witness ==
    /\ call.op = "contains"
    /\ removed >= 1
    /\ outcome.ret = TRUE
    /\ call.key = "strip"
    /\ GetItem(functions, "strip").fn = "func"

(* C16.  The example script, with its pipeline ["strip", "getword-1",       *)
(* to_upper], runs to its end without an error and leaves ["THE", "WAY"] in *)
(* output_lines; every step of the pipeline resolves without KeyError, and  *)
(* the step "getword-1" resolves with index=1 bound.                        *)
C16_ExamplePipelineOutput ==
    (script.pipeline = ExamplePipeline)
        => /\ ~script.failed
           /\ (call.op = "get") => Succeeded
           /\ (call.op = "get" /\ call.key = "getword-1")
                 => outcome.ret.keywords = ("index" :> 1)
           /\ (script.step > Len(script.pipeline))
                 => script.output_lines = <<"THE", "WAY">>

\* An entry as _register_function builds it, stored under its own name
CompleteEntry(slot) ==
    /\ Callable(slot.item.fn)
    /\ slot.item.name = slot.key
    /\ slot.item.metadata \in Metadatas

ReaderSawItem == threads.reader.pc = "done" /\ threads.reader.exc = NoExc
                    /\ threads.reader.op = "get_with_metadata"

\* every key visible in the mapping, and every entry a lookup returned, is a
\* fully constructed entry
NoPartialEntry ==
    /\ \A i \in 1..Len(functions) : CompleteEntry(functions[i])
    /\ ReaderSawItem =>
          CompleteEntry([key |-> threads.reader.key, item |-> threads.reader.ret])

ScanDisturbed == threads.reader.exc = DictChangedSize

(* C20 as stated.  With a registration and a lookup or membership test     *)
(* interleaved step by step, the reader never observes a partially         *)
(* inserted entry, and its scan of the entries is never disturbed by the   *)
(* concurrent insertion.                                                   *)
C20_ScanNeverDisturbed ==
    (threads.reader.pc # "off") => (NoPartialEntry /\ ~ScanDisturbed)

(* C20, amended.  The reader never observes a partially inserted entry: a  *)
(* key is visible only together with its complete entry.  A scan that is   *)
(* under way fails with RuntimeError only if a registration has inserted a *)
(* new key since the scan started (a registration that replaces an         *)
(* existing entry does not disturb it), and a scan never goes on to        *)
(* entries beyond those present when it started.                           *)
C20_NoPartialEntryScanMayFail ==
    (threads.reader.pc # "off") =>
        /\ NoPartialEntry
        /\ ScanDisturbed => KeySet(functions) # KeySet(threads.reader.before)
        /\ threads.reader.pos <= threads.reader.size

\* a scan was cut short by the insertion of a new key, whose complete entry
\* is visible
C20_Witness ==
    /\ ScanDisturbed
    /\ Len(functions) > Len(threads.reader.before)
    /\ NoPartialEntry

====
